---------------------------- MODULE Spec2Model ----------------------------
(***************************************************************************)
(* A model of chord_cutter (src/chord_cutter/chord_cutter.py): the         *)
(* vertebrae registry of class ChordCutter (add_vertebrae,                 *)
(* add_vertebrae_group, remove_all_vertebrae) and ChordCutter.cut_chord,   *)
(* which derives one axial slice range per vertebra from its mask and      *)
(* optionally a chord mask confined to that range.                         *)
(*                                                                         *)
(* Arrays are functions over index triples <<a, b, z>> (axis 0, axis 1,    *)
(* axial axis 2), as the numpy arrays the code works on.  A threshold is a *)
(* rational <<num, den>> with den > 0; the code's float test               *)
(* slice/total > T is the exact test slice*den > num*total for the small   *)
(* integers used here (IEEE division and literals are correctly rounded).  *)
(***************************************************************************)
EXTENDS Integers, Sequences, FiniteSets

VARIABLES
    vertebrae,            \* self._vertebrae: list of identifiers
    vertebrae_RS_path,    \* self._vertebrae_RS_path: {} (None) or {path}
    error,                \* exception raised by the last call, or "none"
    trace,                \* history: registry calls since the last clear
    pc,                   \* position of cut_chord: idle, loop, returned, raised
    T,                    \* cut_chord argument T
    save_as_RS,           \* cut_chord argument save_as_RS
    chord,                \* local chord: {} (unbound) or {array}
    values,               \* local dict values: identifier -> <<minv, maxv>>
    all_seg_chord_masks,  \* local dict: identifier -> array
    i,                    \* number of loop iterations started
    vert,                 \* local vert: {} (unbound) or {array}
    rois                  \* ROIs written to vertebrae.dcm: <<[name, mask]>>

vars == <<vertebrae, vertebrae_RS_path, error, trace, pc, T, save_as_RS,
          chord, values, all_seg_chord_masks, i, vert, rois>>

cutVars == <<pc, T, save_as_RS, chord, values, all_seg_chord_masks, i, vert, rois>>

----------------------------------------------------------------------------
(* Bounds of the model *)

\* array shape (N0, N1, NZ): rows, columns, axial slices
N0 == 2
N1 == 1
NZ == 3
\* longest history of registry calls since the last clear
MaxTrace == 3

----------------------------------------------------------------------------
(* The registry *)

Cervical == <<"vertebrae_C1", "vertebrae_C2", "vertebrae_C3", "vertebrae_C4",
              "vertebrae_C5", "vertebrae_C6", "vertebrae_C7">>
Thorax == <<"vertebrae_T1", "vertebrae_T2", "vertebrae_T3", "vertebrae_T4",
            "vertebrae_T5", "vertebrae_T6", "vertebrae_T7", "vertebrae_T8",
            "vertebrae_T9", "vertebrae_T10", "vertebrae_T11", "vertebrae_T12">>
Lumbar == <<"vertebrae_L1", "vertebrae_L2", "vertebrae_L3", "vertebrae_L4",
            "vertebrae_L5">>

Elems(s) == {s[k] : k \in 1..Len(s)}

\* variant without the membership test of line 106
AppendAlways(list, v) == Append(list, v)
\* body of add_vertebrae on a list value
AddTo(list, v) == IF v \in Elems(list) THEN list ELSE Append(list, v)

\* the match statement of add_vertebrae_group: the members, or <<"raise">>
Raise == <<"raise">>
\* variant whose default case passes instead of raising
GroupOrEmpty(vgroup) ==
    CASE vgroup = "cervical" -> Cervical
      [] vgroup = "thorax" -> Thorax
      [] vgroup = "lumbar" -> Lumbar
      [] OTHER -> <<>>
GroupMembers(vgroup) ==
    CASE vgroup = "cervical" -> Cervical
      [] vgroup = "thorax" -> Thorax
      [] vgroup = "lumbar" -> Lumbar
      [] OTHER -> Raise

\* the for loop of add_vertebrae_group: add_vertebrae on each member in turn
RECURSIVE AddAll(_, _)
AddAll(list, members) ==
    IF members = <<>> THEN list
    ELSE AddAll(AddTo(list, Head(members)), Tail(members))

\* inputs of the registry calls
RegIds == {"vertebrae_C3", "vertebrae_T1", "vertebrae_L5", "sacrum"}
GroupNames == {"cervical", "thorax", "lumbar", "thoracic", "Cervical"}

add_vertebrae(v) ==
    /\ pc = "idle"
    /\ Len(trace) < MaxTrace
    /\ vertebrae' = AddTo(vertebrae, v)
    /\ error' = "none"
    /\ trace' = Append(trace, [op |-> "add_vertebrae", arg |-> v])
    /\ UNCHANGED <<vertebrae_RS_path, cutVars>>

remove_all_vertebrae ==
    /\ pc = "idle"
    /\ vertebrae' = <<>>
    /\ error' = "none"
    /\ trace' = <<>>
    /\ UNCHANGED <<vertebrae_RS_path, cutVars>>

add_vertebrae_group(vgroup) ==
    /\ pc = "idle"
    /\ Len(trace) < MaxTrace
    /\ LET members == GroupMembers(vgroup) IN
         IF members = Raise
         THEN /\ error' = "ValueError"
              /\ vertebrae' = vertebrae
         ELSE /\ error' = "none"
              /\ vertebrae' = AddAll(vertebrae, members)
    /\ trace' = Append(trace, [op |-> "add_vertebrae_group", arg |-> vgroup])
    /\ UNCHANGED <<vertebrae_RS_path, cutVars>>


----------------------------------------------------------------------------
(* Arrays *)

A0 == 0..(N0 - 1)
A1 == 0..(N1 - 1)
ZS == 0..(NZ - 1)

\* numpy.swapaxes on a 3-d array: axes p and q (0-based) exchanged
SwapIdx(t, p, q) ==
    <<IF p = 0 THEN t[q + 1] ELSE IF q = 0 THEN t[p + 1] ELSE t[1],
      IF p = 1 THEN t[q + 1] ELSE IF q = 1 THEN t[p + 1] ELSE t[2],
      IF p = 2 THEN t[q + 1] ELSE IF q = 2 THEN t[p + 1] ELSE t[3]>>
swapaxes(a, p, q) ==
    [t \in {SwapIdx(s, p, q) : s \in DOMAIN a} |-> a[SwapIdx(t, p, q)]]

\* numpy.flip along axis 0
flip0(a) ==
    LET n == Cardinality({t[1] : t \in DOMAIN a})
    IN  [t \in DOMAIN a |-> a[<<n - 1 - t[1], t[2], t[3]>>]]

\* load_nifti on the image read from a file: {} when the file does not
\* exist (sitk.ReadImage raises), else {array}.  GetArrayFromImage indexes
\* the image [z, y, x].
load_nifti(file, flip) ==
    IF file = {} THEN {}
    ELSE LET img_ar == CHOOSE a \in file : TRUE
             sw == swapaxes(swapaxes(img_ar, 0, 2), 0, 1)
         IN  {IF flip THEN flip0(sw) ELSE sw}

\* sum of a[<<x, y, z>>] over y in 0..(n-1), then over x in 0..(m-1)
RECURSIVE SumRow(_, _, _, _)
SumRow(a, x, z, n) ==
    IF n = 0 THEN 0 ELSE SumRow(a, x, z, n - 1) + a[<<x, n - 1, z>>]
RECURSIVE SumPlane(_, _, _)
SumPlane(a, z, m) ==
    IF m = 0 THEN 0 ELSE SumPlane(a, z, m - 1) + SumRow(a, m - 1, z, N1)

\* vert.sum((0,1)) of an array of shape (N0, N1, NZ): one sum per axial index
sum01(a) == [z \in ZS |-> SumPlane(a, z, N0)]

\* vert.sum() of an array of shape (N0, N1, NZ)
RECURSIVE SumSlices(_, _)
SumSlices(a, k) ==
    IF k = 0 THEN 0 ELSE SumSlices(a, k - 1) + SumPlane(a, k - 1, N0)
sumAll(a) == SumSlices(a, NZ)

----------------------------------------------------------------------------
(* The slice range of one vertebra: lines 194-203 of cut_chord *)

\* variant with the comparison reversed
QualifiesBelow(s, total, th) == s * th[2] < th[1] * total
\* (slice/total) > T for T = <<num, den>>
Qualifies(s, total, th) == s * th[2] > th[1] * total

\* np.where(cond)[0]: the indices where cond holds, ascending
RECURSIVE WhereFrom(_, _, _, _)
WhereFrom(slice, total, th, z) ==
    IF z \notin DOMAIN slice THEN <<>>
    ELSE (IF Qualifies(slice[z], total, th) THEN <<z>> ELSE <<>>)
         \o WhereFrom(slice, total, th, z + 1)
Where(slice, total, th) == WhereFrom(slice, total, th, 0)

\* ndarray.min() and ndarray.max() of a non-empty 1-d array
RECURSIVE amin(_)
amin(arr) ==
    IF Len(arr) = 1 THEN arr[1]
    ELSE LET m == amin(Tail(arr)) IN IF arr[1] < m THEN arr[1] ELSE m
\* variant taking min() for maxv as well
amaxAsMin(arr) == amin(arr)
RECURSIVE amax(_)
amax(arr) ==
    IF Len(arr) = 1 THEN arr[1]
    ELSE LET m == amax(Tail(arr)) IN IF arr[1] > m THEN arr[1] ELSE m

\* variant with a strict test
IsNegative(total) == total < 0
\* the test of line 196
NotSegmented(total) == total <= 0

\* lines 196-203 on the sums of lines 194-195: "skip" (total <= 0), "raise"
\* (min of an empty array: ValueError) or "range"
RangeFromSums(slice, total, th) ==
    IF NotSegmented(total)
    THEN [kind |-> "skip", minv |-> 0, maxv |-> 0]
    ELSE LET arr_th == Where(slice, total, th)
         IN  IF arr_th = <<>>
             THEN [kind |-> "raise", minv |-> 0, maxv |-> 0]
             ELSE [kind |-> "range", minv |-> amin(arr_th), maxv |-> amax(arr_th)]

\* what one iteration does with the loaded mask
SliceRangeOf(a, th) == RangeFromSums(sum01(a), sumAll(a), th)

----------------------------------------------------------------------------
(* The confined chord mask: lines 206-213 of cut_chord *)

\* the indices a[lo:hi] selects along an axis with index set S (0 <= lo, hi)
PySlice(S, lo, hi) == {z \in S : lo <= z /\ z < hi}

\* chord_t = np.zeros(chord.shape); chord_t[:,:,minv:maxv] = chord[:,:,minv:maxv]
Confine(c, minv, maxv) ==
    LET sel == PySlice(ZS, minv, maxv)
    IN  [t \in DOMAIN c |-> IF t[3] \in sel /\ c[t] THEN 1 ELSE 0]

\* np.ma.getmask(np.ma.masked_greater(m, 0)) of an array with a value > 0
BoolMask(m) == [t \in DOMAIN m |-> m[t] > 0]

\* self.vertebrae filtered by the keys of all_seg_chord_masks, with masks
RECURSIVE RoisOf(_, _)
RoisOf(list, masks) ==
    IF list = <<>> THEN <<>>
    ELSE (IF Head(list) \in DOMAIN masks
          THEN <<[name |-> Head(list), mask |-> BoolMask(masks[Head(list)])]>>
          ELSE <<>>) \o RoisOf(Tail(list), masks)

EmptyDict == [v \in {} |-> 0]
Put(d, k, x) == [v \in DOMAIN d \cup {k} |-> IF v = k THEN x ELSE d[v]]

----------------------------------------------------------------------------
(* Inputs of cut_chord *)

\* images of the vertebra files: slice z holds counts[z] voxels
CountChoices == {0, 1, N0 * N1}
ImageOfCounts(c) ==
    [t \in ZS \X A0 \X A1 |-> IF t[2] * N1 + t[3] < c[t[1]] THEN 1 ELSE 0]
FileImages == {ImageOfCounts(c) : c \in [ZS -> CountChoices]}
SegFiles == {{}} \cup {{img} : img \in FileImages}

\* chord masks: the slices lo..hi, filled or with one voxel each
ChordOf(P, lo, hi) ==
    [t \in A0 \X A1 \X ZS |->
        lo <= t[3] /\ t[3] <= hi /\ (P = "full" \/ (t[1] = 0 /\ t[2] = 0))]
ChordInputs == {ChordOf(P, lo, hi) : P \in {"full", "corner"}, lo \in ZS, hi \in ZS}

\* thresholds 0, 1/3, 6/5
Thresholds == {<<0, 1>>, <<1, 3>>, <<6, 5>>}

Dirs == {"/out"}
Paths == {"/out", "/nodir"}
isdir(path) == path \in Dirs

\* load_nifti(full_path, flip=True) of line 192, for each file
Loaded == [f \in SegFiles |-> load_nifti(f, TRUE)]

CutOrder == <<"vertebrae_T5", "vertebrae_L5">>
CutLists == {SubSeq(CutOrder, 1, n) : n \in 0..Len(CutOrder)}

----------------------------------------------------------------------------
(* cut_chord *)

set_vertebrae_RS_path(path) ==
    /\ pc = "idle"
    /\ IF isdir(path)
       THEN /\ vertebrae_RS_path' = {path}
            /\ error' = "none"
       ELSE /\ vertebrae_RS_path' = vertebrae_RS_path
            /\ error' = "ValueError"
    /\ UNCHANGED <<vertebrae, trace, cutVars>>

\* lines 181-187: the arguments, the chord mask, the empty dicts
cut_chord_begin(th, save, rs) ==
    /\ pc = "idle"
    /\ T' = th
    /\ save_as_RS' = save
    /\ IF save /\ vertebrae_RS_path = {}
       THEN /\ pc' = "raised"
            /\ error' = "ValueError"
            /\ chord' = {}
       ELSE /\ pc' = "loop"
            /\ error' = "none"
            /\ chord' = IF save THEN {rs} ELSE {}
    /\ values' = EmptyDict
    /\ all_seg_chord_masks' = EmptyDict
    /\ i' = 0
    /\ vert' = {}
    /\ rois' = <<>>
    /\ UNCHANGED <<vertebrae, vertebrae_RS_path, trace>>

\* lines 188-213: one iteration of the loop, on the file of vertebrae[i+1]
cut_chord_iter(file) ==
    /\ pc = "loop"
    /\ i < Len(vertebrae)
    /\ i' = i + 1
    /\ LET v == vertebrae[i + 1]
           loaded == Loaded[file]
       IN  IF loaded = {}
           THEN /\ pc' = "raised"
                /\ error' = "RuntimeError"
                /\ vert' = vert
                /\ UNCHANGED <<values, all_seg_chord_masks>>
           ELSE LET a == CHOOSE x \in loaded : TRUE
                    r == SliceRangeOf(a, T)
                IN  /\ vert' = loaded
                    /\ CASE r.kind = "skip" ->
                              /\ pc' = "loop"
                              /\ error' = error
                              /\ UNCHANGED <<values, all_seg_chord_masks>>
                         [] r.kind = "raise" ->
                              /\ pc' = "raised"
                              /\ error' = "ValueError"
                              /\ UNCHANGED <<values, all_seg_chord_masks>>
                         [] OTHER ->
                              /\ pc' = "loop"
                              /\ error' = error
                              /\ values' = Put(values, v, <<r.minv, r.maxv>>)
                              /\ IF save_as_RS
                                 THEN LET c == CHOOSE x \in chord : TRUE
                                          chord_t == Confine(c, r.minv, r.maxv)
                                      IN  all_seg_chord_masks' =
                                            IF sumAll(chord_t) < 1
                                            THEN all_seg_chord_masks
                                            ELSE Put(all_seg_chord_masks, v, chord_t)
                                 ELSE all_seg_chord_masks' = all_seg_chord_masks
    /\ UNCHANGED <<vertebrae, vertebrae_RS_path, trace, T, save_as_RS, chord, rois>>

\* lines 214-221: the structure set, and the return
cut_chord_end ==
    /\ pc = "loop"
    /\ i = Len(vertebrae)
    /\ pc' = "returned"
    /\ rois' = IF save_as_RS THEN RoisOf(vertebrae, all_seg_chord_masks) ELSE <<>>
    /\ UNCHANGED <<vertebrae, vertebrae_RS_path, error, trace, T, save_as_RS,
                   chord, values, all_seg_chord_masks, i, vert>>

----------------------------------------------------------------------------
(* Specifications *)

\* the state after construction (lines 50-59)
Init ==
    /\ vertebrae = <<>>
    /\ vertebrae_RS_path = {}
    /\ error = "none"
    /\ trace = <<>>
    /\ pc = "idle"
    /\ T = <<0, 1>>
    /\ save_as_RS = FALSE
    /\ chord = {}
    /\ values = EmptyDict
    /\ all_seg_chord_masks = EmptyDict
    /\ i = 0
    /\ vert = {}
    /\ rois = <<>>

RegNext ==
    \/ \E v \in RegIds : add_vertebrae(v)
    \/ \E g \in GroupNames : add_vertebrae_group(g)
    \/ remove_all_vertebrae

\* the registry alone
RegSpec == Init /\ [][RegNext]_vars

\* a registry filled by add_vertebrae calls, before cut_chord is called
CutInit ==
    /\ vertebrae \in CutLists
    /\ trace = [k \in 1..Len(vertebrae) |-> [op |-> "add_vertebrae", arg |-> vertebrae[k]]]
    /\ vertebrae_RS_path = {}
    /\ error = "none"
    /\ pc = "idle"
    /\ T = <<0, 1>>
    /\ save_as_RS = FALSE
    /\ chord = {}
    /\ values = EmptyDict
    /\ all_seg_chord_masks = EmptyDict
    /\ i = 0
    /\ vert = {}
    /\ rois = <<>>

Next ==
    \/ \E path \in Paths : set_vertebrae_RS_path(path)
    \/ \E th \in Thresholds, save \in BOOLEAN, rs \in ChordInputs :
          cut_chord_begin(th, save, rs)
    \/ \E file \in SegFiles : cut_chord_iter(file)
    \/ cut_chord_end

\* cut_chord on a filled registry
Spec == CutInit /\ [][Next]_vars

----------------------------------------------------------------------------
(* Vocabulary of the properties, independent of the operators above *)

Index == A0 \X A1 \X ZS
ArrayOf(x) == CHOOSE a \in x : TRUE

\* the mask of vertebrae[i] is loaded: an iteration ran and its read worked
LoadedCur ==
    /\ pc # "idle"
    /\ i >= 1
    /\ ~(pc = "raised" /\ error = "RuntimeError")
cur == vertebrae[i]

ClaimSliceCount(a, z) == Cardinality({t \in Index : t[3] = z /\ a[t] = 1})
ClaimTotal(a) == Cardinality({t \in Index : a[t] = 1})
\* the axial indices z with sliceCount(z)/total > th
ClaimQualifying(a, th) ==
    {z \in ZS : ClaimSliceCount(a, z) * th[2] > th[1] * ClaimTotal(a)}

In01(th) == 0 < th[1] /\ th[1] < th[2]
Less(t1, t2) == t1[1] * t2[2] < t2[1] * t1[2]
\* thresholds k/6 in (0,1)
ProbeThresholds == {<<k, 6>> : k \in 1..5}

----------------------------------------------------------------------------
(* Properties of cut_chord *)

\* C1: for a threshold in (0,1), a confined chord mask stored for vertebra v
\* with range (minZ, maxZ) equals the chord mask at every voxel with
\* minZ <= z <= maxZ, both ends included, and is zero at every other voxel.
C1_ConfinedEqualsChordOnRange ==
    In01(T) => \A v \in DOMAIN all_seg_chord_masks :
        \A t \in Index :
            all_seg_chord_masks[v][t] =
                IF values[v][1] <= t[3] /\ t[3] <= values[v][2] /\ ArrayOf(chord)[t]
                THEN 1 ELSE 0

\* C2: with save_as_RS and a threshold in (0,1), a vertebra with a range
\* (minZ, maxZ) has a confined mask if and only if the chord mask has a true
\* voxel in slices minZ..maxZ, both ends included.
C2_ConfinedIffOverlap ==
    (save_as_RS /\ In01(T) /\ pc \in {"loop", "returned"}) =>
        \A v \in DOMAIN values :
            (v \in DOMAIN all_seg_chord_masks) <=>
                (\E t \in Index : /\ ArrayOf(chord)[t]
                                  /\ values[v][1] <= t[3]
                                  /\ t[3] <= values[v][2])

\* C3: a call with a threshold outside (0,1) loads no vertebra mask and
\* returns no result.
C3_InvalidThresholdRejected ==
    (pc # "idle" /\ ~In01(T)) => (i = 0 /\ pc # "returned")

\* C4: a vertebra whose mask is not empty but has no qualifying slice, under a
\* threshold in (0,1), does not abort the call.
C4_NoQualifyingSliceContinues ==
    (/\ LoadedCur
     /\ In01(T)
     /\ ClaimTotal(ArrayOf(vert)) > 0
     /\ ClaimQualifying(ArrayOf(vert), T) = {}) => pc # "raised"

\* C5: an identifier whose mask file is missing is skipped: reading it never
\* ends the call with an error.
C5_MissingMaskSkipped ==
    ~(pc = "raised" /\ error = "RuntimeError")

\* C6: the range stored for a vertebra is (min Z, max Z) of the set Z of its
\* qualifying slices: both ends qualify, minZ <= maxZ, and no qualifying slice
\* lies outside.
C6_RangeIsMinMaxOfQualifying ==
    (LoadedCur /\ cur \in DOMAIN values) =>
        LET Z == ClaimQualifying(ArrayOf(vert), T)
            r == values[cur]
        IN  /\ r[1] \in Z
            /\ r[2] \in Z
            /\ r[1] <= r[2]
            /\ \A z \in Z : r[1] <= z /\ z <= r[2]
C6_Witness ==
    /\ LoadedCur
    /\ pc = "returned"
    /\ cur \in DOMAIN values
    /\ values[cur][1] + 2 = values[cur][2]
    /\ (values[cur][1] + 1) \notin ClaimQualifying(ArrayOf(vert), T)

\* C7: an iteration on a mask with no true voxel adds no entry and goes on
\* to the next vertebra; an entry is only ever added for the vertebra of the
\* iteration, whose mask has a true voxel; the returned dict is the one
\* the iterations built.
C7_EmptyMaskLaw ==
    [][(pc = "loop" /\ i' = i + 1) =>
         /\ (/\ ~(pc' = "raised" /\ error' = "RuntimeError")
             /\ ClaimTotal(ArrayOf(vert')) = 0)
            => (values' = values /\ pc' = "loop")
         /\ \A v \in (DOMAIN values') \ (DOMAIN values) :
               /\ v = vertebrae[i']
               /\ ClaimTotal(ArrayOf(vert')) > 0
         /\ \A v \in DOMAIN values : v \in DOMAIN values' /\ values'[v] = values[v]
      ]_vars
C7_Witness ==
    /\ pc = "returned"
    /\ Len(vertebrae) = 2
    /\ ClaimTotal(ArrayOf(vert)) = 0
    /\ DOMAIN values = {vertebrae[1]}

\* C8: for thresholds T1 < T2 in (0,1) and one mask, if T2 yields a range then
\* T1 yields a range that contains it.  The thresholds are every k/6 and the
\* T of the call, whose range is the entry stored for the vertebra.
C8_Monotone ==
    LoadedCur =>
        LET slice == sum01(ArrayOf(vert))
            total == sumAll(ArrayOf(vert))
            r == [th \in ProbeThresholds |-> RangeFromSums(slice, total, th)]
        IN  /\ \A t1, t2 \in ProbeThresholds :
                  (Less(t1, t2) /\ r[t2].kind = "range") =>
                      /\ r[t1].kind = "range"
                      /\ r[t1].minv <= r[t2].minv
                      /\ r[t2].maxv <= r[t1].maxv
            /\ (In01(T) /\ cur \in DOMAIN values) =>
                  \A th \in ProbeThresholds :
                      LET mine == values[cur]
                      IN  /\ Less(th, T) =>
                              /\ r[th].kind = "range"
                              /\ r[th].minv <= mine[1]
                              /\ mine[2] <= r[th].maxv
                          /\ (Less(T, th) /\ r[th].kind = "range") =>
                              /\ mine[1] <= r[th].minv
                              /\ r[th].maxv <= mine[2]
C8_Witness ==
    /\ LoadedCur
    /\ In01(T)
    /\ cur \in DOMAIN values
    /\ \E th \in ProbeThresholds :
          LET r == SliceRangeOf(ArrayOf(vert), th)
          IN  /\ Less(th, T)
              /\ r.kind = "range"
              /\ r.minv < values[cur][1]
              /\ values[cur][2] < r.maxv
    /\ \E th \in ProbeThresholds :
          /\ Less(T, th)
          /\ SliceRangeOf(ArrayOf(vert), th).kind = "raise"

----------------------------------------------------------------------------
(* Properties of the registry *)

NoDuplicate(s) == \A j, k \in 1..Len(s) : s[j] = s[k] => j = k

\* the identifiers a call asks to insert, in order; none for a failed call
ClaimRequested(call) ==
    IF call.op = "add_vertebrae" THEN <<call.arg>>
    ELSE IF call.arg = "cervical" THEN Cervical
    ELSE IF call.arg = "thorax" THEN Thorax
    ELSE IF call.arg = "lumbar" THEN Lumbar
    ELSE <<>>
RECURSIVE ClaimRequests(_)
ClaimRequests(calls) ==
    IF calls = <<>> THEN <<>>
    ELSE ClaimRequested(Head(calls)) \o ClaimRequests(Tail(calls))

FirstIndex(s, x) == CHOOSE n \in 1..Len(s) : s[n] = x /\ \A m \in 1..(n - 1) : s[m] # x
\* list holds each identifier of reqs once, in the order of first request
InFirstInsertionOrder(list, reqs) ==
    /\ NoDuplicate(list)
    /\ Elems(list) = Elems(reqs)
    /\ \A j, k \in 1..Len(list) :
          j < k => FirstIndex(reqs, list[j]) < FirstIndex(reqs, list[k])

IsBadGroupCall(call) ==
    call.op = "add_vertebrae_group" /\ call.arg \notin {"cervical", "thorax", "lumbar"}
CervicalCall == [op |-> "add_vertebrae_group", arg |-> "cervical"]

\* C9: the list never holds an identifier twice and lists the identifiers in
\* the order of their first insertion since the last clear; two calls of
\* add_vertebrae_group("cervical") on an empty registry leave C1..C7 in order.
C9_FirstInsertionOrder ==
    /\ InFirstInsertionOrder(vertebrae, ClaimRequests(trace))
    /\ trace = <<CervicalCall, CervicalCall>> =>
         vertebrae = <<"vertebrae_C1", "vertebrae_C2", "vertebrae_C3",
                       "vertebrae_C4", "vertebrae_C5", "vertebrae_C6",
                       "vertebrae_C7">>
C9_Witness ==
    /\ trace = <<CervicalCall, CervicalCall>>
    /\ Len(vertebrae) = 7

\* C10: add_vertebrae_group with a name other than cervical, thorax, lumbar
\* raises and leaves the list as it was; the calls after it work as if it
\* had not been made.
C10_UnknownGroupFails ==
    [][(Len(trace') = Len(trace) + 1) =>
         LET call == trace'[Len(trace')]
         IN  IF IsBadGroupCall(call)
             THEN vertebrae' = vertebrae /\ error' = "ValueError"
             ELSE /\ error' = "none"
                  /\ Elems(ClaimRequested(call)) \subseteq Elems(vertebrae')
                  /\ Len(vertebrae') =
                       Len(vertebrae)
                       + Cardinality(Elems(ClaimRequested(call)) \ Elems(vertebrae))
      ]_vars
C10_Witness ==
    /\ Len(trace) = 3
    /\ IsBadGroupCall(trace[1])
    /\ trace[2] = [op |-> "add_vertebrae_group", arg |-> "lumbar"]
    /\ trace[3] = [op |-> "add_vertebrae", arg |-> "sacrum"]
    /\ Len(vertebrae) = 6
    /\ error = "none"

============================================================================
